---- MODULE Spec2Model ----
(***************************************************************************)
(* net-copy, the sender: cmd/send.go.                                      *)
(*                                                                         *)
(* sendCmd.RunE connects, sends the Config message, enumerates the files   *)
(* into a queue and drains the queue in rounds of conf.Threads goroutines, *)
(* each running sendFile.  All goroutines write to one connection through  *)
(* ncclient.Client.SendMessage.  The packages ncclient and ncproto are not *)
(* part of the sources at hand: SendMessage and the frame layout are       *)
(* modelled from the design document (a guard held for the duration of a   *)
(* frame's write; a frame is a type tag followed by the payload).          *)
(***************************************************************************)
EXTENDS Integers, Sequences, FiniteSets, TLC

\* ------------------------------------------------------------------ bounds

\* The largest value of --threads explored (the flag is a uint16).
MaxThreads == 2

\* The largest number of regular files under the working directory.
MaxFiles == 3

\* The largest number of chunks a file needs.
MaxChunks == 2

\* The deepest nesting of an entry below the working directory.
MaxDepth == 3

\* The largest number of entries (files and directories) of a tree.
MaxEntries == 3

\* ------------------------------------------------------- program constants

\* conf.ReadBufferSize = 5
ReadBufferSize == 5

\* conf.ConnectionID = uuid.New(): one value per run.
ConnectionID == "connection-id"

\* The ids uuid.New() hands to the enumerated files: pairwise distinct.
Files == 1 .. MaxFiles

\* The sizes of the files on disk: empty, exactly one buffer, and a size
\* that needs MaxChunks reads and ends in a short one.
FileSizes == {0, ReadBufferSize, (MaxChunks - 1) * ReadBufferSize + 2}

Min(a, b) == IF a < b THEN a ELSE b

VARIABLES
    threads,        \* conf.Threads
    disk,           \* the regular files under conf.WorkingDirectory: id -> size
    mpc,            \* where RunE is
    queue,          \* files: the list of ncproto.File still to send
    i,              \* the loop variable of the inner for
    wg,             \* the counter of the round's sync.WaitGroup
    breakAll,       \* breakAll
    connOpen,       \* whether the transport accepts writes (no reset so far)
    locked,         \* the guard of Client.SendMessage
    wire,           \* what the transport has accepted, one entry per write
    wpc,            \* where the sendFile goroutine of each file is
    fp,             \* the *os.File of each sendFile: "none", "nil" or "open"
    pos,            \* the read offset of fp
    sentChunks,     \* sentChunks of each sendFile
    fchunk,         \* the ncproto.FileChunk built by the last read
    failed,         \* what sendFile reported on stderr: "none", "open", "read"
    lastPercentage, \* lastPercentage of each sendFile
    rendered,       \* the buckets of the bars each sendFile wrote to the console
    round,          \* history: the number of rounds that started a goroutine
    roundOf,        \* history: the round that started each goroutine (0: none)
    startedThisRound,   \* history: goroutines started since the round began
    lenAtRoundStart,    \* history: the queue's length when the round began
    tree,           \* the directory tree handed to collectFiles: path -> kind
    epc,            \* where the enumeration of tree is: "start" or "done"
    found           \* what collectFiles made of tree: files and reported errors

vars == << threads, disk, mpc, queue, i, wg, breakAll, connOpen, locked, wire,
           wpc, fp, pos, sentChunks, fchunk, failed, lastPercentage, rendered,
           round, roundOf, startedThisRound, lenAtRoundStart,
           tree, epc, found >>

mainVars == << mpc, queue, i, wg, breakAll >>
workerVars == << wpc, fp, pos, sentChunks, fchunk, failed,
                lastPercentage, rendered >>
progressVars == << lastPercentage, rendered >>
historyVars == << round, roundOf, startedThisRound, lenAtRoundStart >>
enumVars == << tree, epc, found >>

\* ------------------------------------------------------------------ frames

\* One message as the receiver decodes it.  Len is the FileSize of a File
\* and the length of Data of a FileChunk.
Frame(type, id, seq, len) ==
    [type |-> type, ID |-> id, ConnectionID |-> ConnectionID,
     Seq |-> seq, Len |-> len]

ConfigMessage == Frame("Config", 0, 0, ReadBufferSize)

ConnectionCloseMessage == Frame("ConnectionClose", 0, 0, 0)

\* nf := ncproto.File{ID, ConnectionID, FileSize: v.Size(), ...}
Descriptor(f) == [ID |-> f, FileSize |-> disk[f]]

FileMessage(d) == Frame("File", d.ID, 0, d.FileSize)

NoChunk == [Seq |-> 0, Len |-> 0]

\* fchunk := ncproto.FileChunk{ID: file.ID, ..., Data: readBuffer[:n], Seq: sentChunks}
FileChunkMessage(f) == Frame("FileChunk", f, fchunk[f].Seq, fchunk[f].Len)

\* ------------------------------------------------------------ SendMessage

\* A write to the transport: accepted while the connection is open, an
\* error the callers ignore once it is closed or reset.
TransportWrite(part, fr) ==
    IF connOpen THEN Append(wire, [part |-> part, fr |-> fr]) ELSE wire

\* SendMessage acquires the guard before it writes.
GuardFree_NoGuard == TRUE
GuardFree == ~locked

\* First half of SendMessage: take the guard, write the type tag.
SendBegin(fr) ==
    /\ GuardFree
    /\ locked' = TRUE
    /\ wire' = TransportWrite("tag", fr)

\* Second half of SendMessage: write the payload, release the guard.
SendEnd(fr) ==
    /\ locked' = FALSE
    /\ wire' = TransportWrite("payload", fr)

\* ------------------------------------------------------------ collectFiles

\* The entry names, in the order ioutil.ReadDir lists them (sorted by name).
Names == << "a", "b" >>

NameSet == { Names[k] : k \in DOMAIN Names }

\* conf.WorkingDirectory, as its path elements.
WorkingDirectory == << "wd" >>

\* The entries a tree may hold, each as its path below the working directory.
Paths == UNION { [1 .. d -> NameSet] : d \in 1 .. MaxDepth }

\* The directory that holds the entry p.
Parent(p) == SubSeq(p, 1, Len(p) - 1)

RECURSIVE ShapesUpTo(_)
\* The sets of at most k entries in which every entry's directory is an
\* entry too (or is the working directory).
ShapesUpTo(k) ==
    IF k = 0 THEN { {} }
    ELSE LET prev == ShapesUpTo(k - 1) IN
         prev \cup UNION { { S \cup {p} : p \in { q \in Paths \ S :
                                   Len(q) = 1 \/ Parent(q) \in S } } : S \in prev }

\* What an entry is: a file, a directory, or a directory whose listing
\* fails.  Only directories hold entries; the working directory is <<>>.
Trees ==
    UNION { { t \in [S \cup { << >> } -> {"file", "dir", "baddir"}] :
                \A p \in S \cup { << >> } :
                    /\ (p = << >> => t[p] # "file")
                    /\ (p # << >> => t[Parent(p)] # "file") }
            : S \in ShapesUpTo(MaxEntries) }

\* The tree with nothing below the working directory.
EmptyTree == [p \in { << >> } |-> "dir"]

NoResult == [files |-> << >>, errors |-> << >>]

\* filepath.Join(dir, v.Name())
Join_NameOnly(dir, name) == << name >>
Join(dir, name) == Append(dir, name)

\* Whether target lies at or below base.
IsBelow(base, target) ==
    /\ Len(base) <= Len(target)
    /\ SubSeq(target, 1, Len(base)) = base

\* filepath.Rel(base, target) for a target at or below base: the elements
\* of target that follow base ("." is the empty path).
Rel(base, target) == SubSeq(target, Len(base) + 1, Len(target))

\* fs, err := ioutil.ReadDir(dir): the names in dir, sorted, or an error and
\* no entries when dir cannot be listed.
ReadDir(t, dir) ==
    IF /\ IsBelow(WorkingDirectory, dir)
       /\ Rel(WorkingDirectory, dir) \in DOMAIN t
       /\ t[Rel(WorkingDirectory, dir)] = "dir"
    THEN LET here == Rel(WorkingDirectory, dir)
             Listed(n) == Append(here, n) \in DOMAIN t
         IN [err |-> FALSE, fs |-> SelectSeq(Names, Listed)]
    ELSE [err |-> TRUE, fs |-> << >>]

\* v.IsDir() of the entry named v in dir.
IsDir(t, dir, v) == t[Append(Rel(WorkingDirectory, dir), v)] \in {"dir", "baddir"}

\* nf := ncproto.File{..., Name: v.Name(), RelativePath: rel}
NewFile(v, rel) == [Name |-> v, RelativePath |-> rel]

RECURSIVE collectFiles(_, _, _), collectEntries(_, _, _, _)

\* collectFiles(dir, files): a failed listing is reported and leaves nothing
\* to range over.  acc is files together with what was printed to stderr.
collectFiles(t, dir, acc) ==
    LET r == ReadDir(t, dir) IN
        collectEntries(t, dir, r.fs,
                       IF r.err THEN [acc EXCEPT !.errors = Append(@, dir)]
                                ELSE acc)

\* for _, v := range fs: a directory is descended into; anything else is
\* pushed to the back of files, unless filepath.Rel fails.
collectEntries(t, dir, fs, acc) ==
    IF fs = << >> THEN acc
    ELSE LET v == Head(fs) IN
         collectEntries(t, dir, Tail(fs),
            IF IsDir(t, dir, v)
            THEN collectFiles(t, Join(dir, v), acc)
            ELSE IF ~IsBelow(WorkingDirectory, dir)
                 THEN [acc EXCEPT !.errors = Append(@, dir)]
                 ELSE [acc EXCEPT !.files =
                          Append(@, NewFile(v, Rel(WorkingDirectory, dir)))])

\* -------------------------------------------------------------------- Init

\* Nothing of RunE has run.
InitSender ==
    /\ mpc = "connect"
    /\ queue = << >>
    /\ i = 0
    /\ wg = 0
    /\ breakAll = FALSE
    /\ connOpen = FALSE
    /\ locked = FALSE
    /\ wire = << >>
    /\ wpc = [f \in Files |-> "idle"]
    /\ fp = [f \in Files |-> "none"]
    /\ pos = [f \in Files |-> 0]
    /\ sentChunks = [f \in Files |-> 0]
    /\ fchunk = [f \in Files |-> NoChunk]
    /\ failed = [f \in Files |-> "none"]
    /\ lastPercentage = [f \in Files |-> 0]
    /\ rendered = [f \in Files |-> << >>]
    /\ round = 0
    /\ roundOf = [f \in Files |-> 0]
    /\ startedThisRound = 0
    /\ lenAtRoundStart = 0

Init ==
    /\ threads \in 0 .. MaxThreads
    /\ disk \in UNION { [1 .. n -> FileSizes] : n \in 0 .. MaxFiles }
    /\ InitSender
    /\ tree = EmptyTree
    /\ epc = "start"
    /\ found = NoResult

\* -------------------------------------------------------------------- RunE

\* cln, err := ncclient.Connect(...); if err != nil { return err }
NextAfterConnect_SkipConfig == "collect"
NextAfterConnect == "config"

Connect ==
    /\ mpc = "connect"
    /\ \/ /\ connOpen' = TRUE
          /\ mpc' = NextAfterConnect
       \/ /\ connOpen' = FALSE
          /\ mpc' = "exit"
    /\ UNCHANGED << threads, disk, queue, i, wg, breakAll, locked, wire >>
    /\ UNCHANGED << workerVars, historyVars >>
    /\ UNCHANGED enumVars

\* cln.SendMessage(conf)
SendConfigBegin ==
    /\ mpc = "config"
    /\ SendBegin(ConfigMessage)
    /\ mpc' = "configW"
    /\ UNCHANGED << threads, disk, queue, i, wg, breakAll, connOpen >>
    /\ UNCHANGED << workerVars, historyVars >>
    /\ UNCHANGED enumVars

SendConfigEnd ==
    /\ mpc = "configW"
    /\ SendEnd(ConfigMessage)
    /\ mpc' = "collect"
    /\ UNCHANGED << threads, disk, queue, i, wg, breakAll, connOpen >>
    /\ UNCHANGED << workerVars, historyVars >>
    /\ UNCHANGED enumVars

\* files := list.New(); collectFiles(conf.WorkingDirectory, files)
CollectFiles ==
    /\ mpc = "collect"
    /\ queue' = [k \in 1 .. Len(disk) |-> Descriptor(k)]
    /\ mpc' = "loop"
    /\ UNCHANGED << threads, disk, i, wg, breakAll, connOpen, locked, wire >>
    /\ UNCHANGED << workerVars, historyVars >>
    /\ UNCHANGED enumVars

\* for { var wg sync.WaitGroup; for i := uint16(0); ...
RoundBegin ==
    /\ mpc = "loop"
    /\ wg' = 0
    /\ i' = 0
    /\ mpc' = "for"
    /\ startedThisRound' = 0
    /\ lenAtRoundStart' = Len(queue)
    /\ UNCHANGED << threads, disk, queue, breakAll, connOpen, locked, wire >>
    /\ UNCHANGED << workerVars, round, roundOf >>
    /\ UNCHANGED enumVars

\* i < conf.Threads
ForCond_OffByOne == i <= threads
ForCond == i < threads

\* files.Remove(e), e being files.Front()
RemoveFront_NoRemove(q) == q
RemoveFront(q) == Tail(q)

\* One iteration with a descriptor at the front: wg.Add(1), files.Remove(e),
\* go sendFile(cln, &file, &wg), i++.
Dispatch ==
    /\ mpc = "for"
    /\ ForCond
    /\ queue # << >>
    /\ LET f == Head(queue).ID IN
          /\ wg' = wg + 1
          /\ queue' = RemoveFront(queue)
          /\ wpc' = [wpc EXCEPT ![f] = "open"]
          /\ i' = i + 1
          /\ round' = IF startedThisRound = 0 THEN round + 1 ELSE round
          /\ roundOf' = [roundOf EXCEPT ![f] = round']
          /\ startedThisRound' = startedThisRound + 1
    /\ UNCHANGED << threads, disk, mpc, breakAll, connOpen, locked, wire >>
    /\ UNCHANGED << fp, pos, sentChunks, fchunk, failed, lenAtRoundStart >>
    /\ UNCHANGED enumVars
    /\ UNCHANGED progressVars

\* One iteration with the queue empty: wg.Add(1), breakAll = true,
\* wg.Done(), break.
QueueEmpty ==
    /\ mpc = "for"
    /\ ForCond
    /\ queue = << >>
    /\ breakAll' = TRUE
    /\ mpc' = "wait"
    /\ UNCHANGED << threads, disk, queue, i, wg, connOpen, locked, wire >>
    /\ UNCHANGED << workerVars, historyVars >>
    /\ UNCHANGED enumVars

\* The inner for ends because i reached conf.Threads.
ForExit ==
    /\ mpc = "for"
    /\ ~ForCond
    /\ mpc' = "wait"
    /\ UNCHANGED << threads, disk, queue, i, wg, breakAll, connOpen, locked, wire >>
    /\ UNCHANGED << workerVars, historyVars >>
    /\ UNCHANGED enumVars

\* wg.Wait() returns when the counter is zero.
WaitReturns_NoWait == TRUE
WaitReturns == wg = 0

\* wg.Wait(); if breakAll { break }
Wait ==
    /\ mpc = "wait"
    /\ WaitReturns
    /\ mpc' = IF breakAll THEN "close" ELSE "loop"
    /\ UNCHANGED << threads, disk, queue, i, wg, breakAll, connOpen, locked, wire >>
    /\ UNCHANGED << workerVars, historyVars >>
    /\ UNCHANGED enumVars

\* cln.SendMessage(ncproto.ConnectionClose{ConnectionID: conf.ConnectionID})
SendConnectionCloseBegin ==
    /\ mpc = "close"
    /\ SendBegin(ConnectionCloseMessage)
    /\ mpc' = "closeW"
    /\ UNCHANGED << threads, disk, queue, i, wg, breakAll, connOpen >>
    /\ UNCHANGED << workerVars, historyVars >>
    /\ UNCHANGED enumVars

\* ... return nil.  The deferred cln.Connection.Close() runs here: nothing
\* writes after it, and connOpen keeps recording that no write failed.
SendConnectionCloseEnd ==
    /\ mpc = "closeW"
    /\ SendEnd(ConnectionCloseMessage)
    /\ mpc' = "done"
    /\ UNCHANGED << threads, disk, queue, i, wg, breakAll, connOpen >>
    /\ UNCHANGED << workerVars, historyVars >>
    /\ UNCHANGED enumVars

\* ---------------------------------------------------------------- sendFile

\* What follows os.Open, failed or not: cln.SendMessage(file).
AfterOpen_NoFileMessage == "read"
AfterOpen == "sendFile"

\* fp, err := os.Open(file.FullFilePath(&conf)).  On an error the message
\* "error opening file" is printed and fp is nil; there is no return.
Open(f) ==
    /\ wpc[f] = "open"
    /\ \/ /\ fp' = [fp EXCEPT ![f] = "open"]
          /\ UNCHANGED failed
       \/ /\ fp' = [fp EXCEPT ![f] = "nil"]
          /\ failed' = [failed EXCEPT ![f] = "open"]
    /\ wpc' = [wpc EXCEPT ![f] = AfterOpen]
    /\ UNCHANGED << threads, disk, mainVars, connOpen, locked, wire >>
    /\ UNCHANGED << pos, sentChunks, fchunk, historyVars >>
    /\ UNCHANGED enumVars
    /\ UNCHANGED progressVars

\* cln.SendMessage(file)
SendFileBegin(f) ==
    /\ wpc[f] = "sendFile"
    /\ SendBegin(FileMessage(Descriptor(f)))
    /\ wpc' = [wpc EXCEPT ![f] = "sendFileW"]
    /\ UNCHANGED << threads, disk, mainVars, connOpen >>
    /\ UNCHANGED << fp, pos, sentChunks, fchunk, failed, historyVars >>
    /\ UNCHANGED enumVars
    /\ UNCHANGED progressVars

SendFileEnd(f) ==
    /\ wpc[f] = "sendFileW"
    /\ SendEnd(FileMessage(Descriptor(f)))
    /\ wpc' = [wpc EXCEPT ![f] = "read"]
    /\ UNCHANGED << threads, disk, mainVars, connOpen >>
    /\ UNCHANGED << fp, pos, sentChunks, fchunk, failed, historyVars >>
    /\ UNCHANGED enumVars
    /\ UNCHANGED progressVars

\* The n of a successful fp.Read(readBuffer) on a regular file with `left`
\* bytes ahead: the buffer is filled unless the file ends first.
ReadLen_ShortRead(left) == IF left > 1 THEN Min(ReadBufferSize, left) - 1 ELSE left
ReadLen(left) == Min(ReadBufferSize, left)

\* Data: readBuffer[:n]
ChunkData_WholeBuffer(n) == ReadBufferSize
ChunkData(n) == n

\* sentChunks++
NextSentChunks_NoIncrement(n) == n
NextSentChunks(n) == n + 1

\* The width of the bar: file.GetProgress(sentChunks, 25, &conf)
BarWidth == 25

\* The bucket file.GetProgress returns: how many of the bar's segments the
\* bytes of the chunks sent so far fill, relative to the file's size.
GetProgress(chunks, width, d) ==
    IF d.FileSize = 0 THEN width
    ELSE Min(width, (chunks * ReadBufferSize * width) \div d.FileSize)

\* if lastPercentage < progress
RedrawCond_NotStrict(last, progress) == last <= progress
RedrawCond(last, progress) == last < progress

\* n, err := fp.Read(readBuffer) returns n > 0 and no error: the chunk is
\* built with Seq: sentChunks, the progress bar is redrawn, sentChunks++.
ReadData(f) ==
    /\ wpc[f] = "read"
    /\ fp[f] = "open"
    /\ pos[f] < disk[f]
    /\ LET n == ReadLen(disk[f] - pos[f]) IN
          /\ pos' = [pos EXCEPT ![f] = pos[f] + n]
          /\ fchunk' = [fchunk EXCEPT ![f] = [Seq |-> sentChunks[f], Len |-> ChunkData(n)]]
    /\ LET progress == GetProgress(sentChunks[f], BarWidth, Descriptor(f)) IN
          IF RedrawCond(lastPercentage[f], progress)
          THEN /\ rendered' = [rendered EXCEPT ![f] = Append(@, progress)]
               /\ lastPercentage' = [lastPercentage EXCEPT ![f] = progress]
          ELSE UNCHANGED << rendered, lastPercentage >>
    /\ sentChunks' = [sentChunks EXCEPT ![f] = NextSentChunks(sentChunks[f])]
    /\ wpc' = [wpc EXCEPT ![f] = "sendChunk"]
    /\ UNCHANGED << threads, disk, mainVars, connOpen, locked, wire >>
    /\ UNCHANGED << fp, failed, historyVars >>
    /\ UNCHANGED enumVars

\* n == 0 && err == io.EOF: break
ReadEOF(f) ==
    /\ wpc[f] = "read"
    /\ fp[f] = "open"
    /\ pos[f] = disk[f]
    /\ wpc' = [wpc EXCEPT ![f] = "finish"]
    /\ UNCHANGED << threads, disk, mainVars, connOpen, locked, wire >>
    /\ UNCHANGED << fp, pos, sentChunks, fchunk, failed, historyVars >>
    /\ UNCHANGED enumVars
    /\ UNCHANGED progressVars

\* Where sendFile goes on after a read error: the break leaves the loop.
AfterReadError_NoBreak == "sendChunk"
AfterReadError == "finish"

\* err != nil && err != io.EOF: "error reading file" is printed, break.  A
\* read of an open file may fail at any offset; a read through the nil fp an
\* open failure left always fails (os.ErrInvalid, n = 0).
ReadError(f) ==
    /\ wpc[f] = "read"
    /\ fp[f] \in {"open", "nil"}
    /\ failed' = [failed EXCEPT ![f] = IF @ = "none" THEN "read" ELSE @]
    /\ wpc' = [wpc EXCEPT ![f] = AfterReadError]
    /\ UNCHANGED << threads, disk, mainVars, connOpen, locked, wire >>
    /\ UNCHANGED << fp, pos, sentChunks, fchunk, historyVars >>
    /\ UNCHANGED enumVars
    /\ UNCHANGED progressVars

\* cln.SendMessage(fchunk)
SendChunkBegin(f) ==
    /\ wpc[f] = "sendChunk"
    /\ SendBegin(FileChunkMessage(f))
    /\ wpc' = [wpc EXCEPT ![f] = "sendChunkW"]
    /\ UNCHANGED << threads, disk, mainVars, connOpen >>
    /\ UNCHANGED << fp, pos, sentChunks, fchunk, failed, historyVars >>
    /\ UNCHANGED enumVars
    /\ UNCHANGED progressVars

SendChunkEnd(f) ==
    /\ wpc[f] = "sendChunkW"
    /\ SendEnd(FileChunkMessage(f))
    /\ wpc' = [wpc EXCEPT ![f] = "read"]
    /\ UNCHANGED << threads, disk, mainVars, connOpen >>
    /\ UNCHANGED << fp, pos, sentChunks, fchunk, failed, historyVars >>
    /\ UNCHANGED enumVars
    /\ UNCHANGED progressVars

\* The full bar is printed (strings.Repeat("#", 25)) and the deferred
\* wg.Done() runs.  fp is not closed.
Finish(f) ==
    /\ wpc[f] = "finish"
    /\ wg' = wg - 1
    /\ wpc' = [wpc EXCEPT ![f] = "done"]
    /\ rendered' = [rendered EXCEPT ![f] = Append(@, BarWidth)]
    /\ UNCHANGED lastPercentage
    /\ UNCHANGED << threads, disk, mpc, queue, i, breakAll, connOpen, locked, wire >>
    /\ UNCHANGED << fp, pos, sentChunks, fchunk, failed, historyVars >>
    /\ UNCHANGED enumVars

\* ------------------------------------------------------------- environment

\* The remote end resets the connection: every later write fails.
ConnReset ==
    /\ connOpen
    /\ mpc \notin {"connect", "exit", "done"}
    /\ connOpen' = FALSE
    /\ UNCHANGED << threads, disk, mainVars, locked, wire >>
    /\ UNCHANGED << workerVars, historyVars >>
    /\ UNCHANGED enumVars

\* -------------------------------------------------------------------- Next

Main ==
    \/ Connect
    \/ SendConfigBegin
    \/ SendConfigEnd
    \/ CollectFiles
    \/ RoundBegin
    \/ Dispatch
    \/ QueueEmpty
    \/ ForExit
    \/ Wait
    \/ SendConnectionCloseBegin
    \/ SendConnectionCloseEnd

Worker(f) ==
    \/ Open(f)
    \/ SendFileBegin(f)
    \/ SendFileEnd(f)
    \/ ReadData(f)
    \/ ReadEOF(f)
    \/ ReadError(f)
    \/ SendChunkBegin(f)
    \/ SendChunkEnd(f)
    \/ Finish(f)

Next ==
    \/ Main
    \/ \E f \in Files : Worker(f)
    \/ ConnReset

Spec == Init /\ [][Next]_vars

\* The Go scheduler runs every runnable goroutine: RunE and each sendFile
\* keep taking steps while they can.  The network is not obliged to fail.
FairSpec ==
    /\ Init
    /\ [][Next]_vars
    /\ WF_vars(Main)
    /\ \A f \in Files : WF_vars(Worker(f))

\* The enumeration on its own: collectFiles applied to every tree within
\* the bounds.
EnumInit ==
    /\ threads = 1
    /\ disk = << >>
    /\ InitSender
    /\ tree \in Trees
    /\ epc = "start"
    /\ found = NoResult

\* files := list.New(); collectFiles(conf.WorkingDirectory, files)
Enumerate ==
    /\ epc = "start"
    /\ found' = collectFiles(tree, WorkingDirectory, NoResult)
    /\ epc' = "done"
    /\ UNCHANGED << threads, disk, mainVars, connOpen, locked, wire >>
    /\ UNCHANGED << workerVars, historyVars, tree >>

EnumNext == Enumerate

EnumSpec == EnumInit /\ [][EnumNext]_vars

\* ------------------------------------------------------- derived notions

\* The frames a receiver has decoded in full: a tag followed by its payload.
Frames == [k \in 1 .. (Len(wire) \div 2) |-> wire[2 * k].fr]

FramesOf(f) == { k \in DOMAIN Frames : Frames[k].ID = f }

ChunksOf(f) == { k \in DOMAIN Frames :
                    Frames[k].type = "FileChunk" /\ Frames[k].ID = f }

Running == { f \in Files : wpc[f] \notin {"idle", "done"} }

\* -------------------------------------------------------------------- C1

\* C1.  Frame atomicity: whatever the goroutines do, the writes the transport
\* accepted are a concatenation of whole frames, each a tag directly followed
\* by the payload of the same message, with at most one unfinished frame at
\* the end, and that one only while its sender is inside SendMessage or after
\* the connection was reset.
C1_FrameAtomicity ==
    /\ \A k \in DOMAIN wire :
          IF k % 2 = 1
          THEN wire[k].part = "tag"
          ELSE wire[k].part = "payload" /\ wire[k].fr = wire[k - 1].fr
    /\ Len(wire) % 2 = 1 => (locked \/ ~connOpen)

\* Two goroutines of one round are sending at once: one is inside
\* SendMessage with its tag written, the other waits for the guard, and
\* whole frames of both files are already on the wire.
C1_Witness ==
    \E f, g \in Files :
        /\ f # g
        /\ wpc[f] = "sendChunkW"
        /\ wpc[g] = "sendChunk"
        /\ connOpen
        /\ Len(wire) % 2 = 1
        /\ FramesOf(f) # {}
        /\ FramesOf(g) # {}

\* -------------------------------------------------------------------- C2

\* The enumerated files RunE has not dequeued yet.
Queued == { queue[k].ID : k \in DOMAIN queue }

\* C2.  Round barrier: a goroutine of a later round is started, and its
\* descriptor dequeued, only when every goroutine of the earlier rounds has
\* finished; a round takes at most conf.Threads descriptors, and takes them
\* from the front of the queue (in enumeration order).
C2_RoundBarrier ==
    /\ \A f, g \in Files :
          (roundOf[f] > 0 /\ roundOf[g] > roundOf[f]) => wpc[f] = "done"
    /\ \A f \in Files :
          wpc[f] \notin {"idle", "done"} =>
             \A g \in 1 .. Len(disk) : g > f /\ roundOf[g] # roundOf[f] => g \in Queued
    /\ \A r \in 1 .. MaxFiles :
          Cardinality({ f \in Files : roundOf[f] = r }) <= threads
    /\ \A f, g \in Files :
          (f < g /\ roundOf[g] > 0) => (roundOf[f] > 0 /\ roundOf[f] <= roundOf[g])

\* T = 2 and three files: the first has finished, the second is still
\* reading, RunE waits and the third is still in the queue.
C2_Witness ==
    /\ threads = 2
    /\ Len(disk) = 3
    /\ mpc = "wait"
    /\ wpc[1] = "done"
    /\ wpc[2] = "read"
    /\ wpc[3] = "idle"
    /\ Queued = {3}

\* -------------------------------------------------------------------- C3

\* C3.  Bounded concurrency: at most conf.Threads sendFile goroutines are
\* started and unfinished at any time, and when the inner for has ended the
\* round has started exactly min(conf.Threads, queue length at its start).
C3_BoundedConcurrency ==
    /\ Cardinality(Running) <= threads
    /\ mpc = "wait" => startedThisRound = Min(threads, lenAtRoundStart)
    /\ startedThisRound > 0 =>
          startedThisRound = Cardinality({ f \in Files : roundOf[f] = round })

\* A full round: T = 2, three files queued, two goroutines running.
C3_Witness ==
    /\ threads = 2
    /\ mpc = "wait"
    /\ lenAtRoundStart = 3
    /\ startedThisRound = 2
    /\ Cardinality(Running) = 2

\* -------------------------------------------------------------------- C4

\* The last two frames are Close and ConnectionClose, in that order.
ClosePair ==
    LET n == Len(Frames) IN
       /\ n >= 2
       /\ Frames[n - 1].type = "Close"
       /\ Frames[n].type = "ConnectionClose"
       /\ Frames[n].ConnectionID = ConnectionID

\* C4.  Session close sequence: when RunE has returned over a working
\* connection, the wire ends with exactly one Close frame followed by exactly
\* one ConnectionClose frame carrying the connection id, every goroutine has
\* finished, and no File or FileChunk frame follows either of them.
C4_CloseSequence ==
    (mpc = "done" /\ connOpen) =>
       /\ ClosePair
       /\ Cardinality({ k \in DOMAIN Frames : Frames[k].type = "Close" }) = 1
       /\ Cardinality({ k \in DOMAIN Frames : Frames[k].type = "ConnectionClose" }) = 1
       /\ Running = {}

\* -------------------------------------------------------------------- C5

\* C5.  Config first: the first thing written is the Config frame, no other
\* frame is a Config frame, and once SendMessage(conf) has returned over a
\* working connection the Config frame is on the wire.
C5_ConfigFirst ==
    /\ wire # << >> => wire[1].fr.type = "Config"
    /\ \A k \in DOMAIN Frames : Frames[k].type = "Config" <=> k = 1
    /\ (connOpen /\ mpc \notin {"connect", "exit", "config", "configW"}) =>
          Len(Frames) >= 1

\* Two goroutines have put File and FileChunk frames on the wire behind the
\* Config frame.
C5_Witness ==
    /\ Len(Frames) >= 4
    /\ Frames[1].type = "Config"
    /\ \E f, g \in Files :
          /\ f # g
          /\ ChunksOf(f) # {}
          /\ FramesOf(g) # {}

\* -------------------------------------------------------------------- C6

\* C6.  Open failure emits nothing: a file whose open failed has no frame
\* on the wire, neither its File frame nor a FileChunk frame.
C6_OpenFailureEmitsNothing ==
    \A f \in Files : failed[f] = "open" => FramesOf(f) = {}

\* -------------------------------------------------------------------- C7

\* C7.  Scheduler termination: for every conf.Threads (0 included) and every
\* queue, with every goroutine running to its end, RunE eventually returns.
C7_SchedulerTerminates == <>(mpc \in {"done", "exit"})

\* -------------------------------------------------------------------- C8

\* C8.  Chunk sequence contiguity: the k-th FileChunk frame of a file on the
\* wire (counting from 0, in emission order) carries Seq = k, whatever frames
\* of other files lie between.
C8_ChunkSeqContiguous ==
    \A k \in DOMAIN Frames :
        Frames[k].type = "FileChunk" =>
            Frames[k].Seq =
                Cardinality({ j \in ChunksOf(Frames[k].ID) : j < k })

\* Two chunks of one file with a chunk of another file between them.
C8_Witness ==
    \E f, g \in Files :
        /\ f # g
        /\ \E a, b \in ChunksOf(f) : \E c \in ChunksOf(g) : a < c /\ c < b

\* -------------------------------------------------------------------- C9

RECURSIVE SumLen(_)
\* The sum of the payload lengths of the frames at the positions in S.
SumLen(S) ==
    IF S = {} THEN 0
    ELSE LET k == CHOOSE x \in S : TRUE IN Frames[k].Len + SumLen(S \ {k})

\* The positions of the File frames of f.
FileFramesOf(f) == { k \in DOMAIN Frames :
                        Frames[k].type = "File" /\ Frames[k].ID = f }

\* f is announced once and its chunks add up to the announced size.
SentCompletely(f) ==
    /\ Cardinality(FileFramesOf(f)) = 1
    /\ \A k \in FileFramesOf(f) : Frames[k].Len = SumLen(ChunksOf(f))

\* C9.  Payload completeness: a file opened and read to end-of-file without
\* error over a working connection has, once its sendFile has returned,
\* chunk payloads that add up to the FileSize of its File frame; every chunk
\* payload has between 1 and ReadBufferSize bytes; an empty file has no
\* chunk frame.
C9_PayloadComplete ==
    /\ \A f \in Files :
          (wpc[f] = "done" /\ failed[f] = "none" /\ connOpen) => SentCompletely(f)
    /\ \A k \in DOMAIN Frames :
          Frames[k].type = "FileChunk" =>
             /\ Frames[k].Len \in 1 .. ReadBufferSize
             /\ disk[Frames[k].ID] # 0

\* A file that ends in a short chunk and an empty file have both been sent.
C9_Witness ==
    \E f, g \in Files :
        /\ wpc[f] = "done" /\ failed[f] = "none"
        /\ wpc[g] = "done" /\ failed[g] = "none"
        /\ connOpen
        /\ disk[f] > ReadBufferSize
        /\ Cardinality(ChunksOf(f)) = MaxChunks
        /\ disk[g] = 0
        /\ FileFramesOf(g) # {}

\* ------------------------------------------------------------------- C10

\* C10.  Per-file failure isolation: when RunE has returned over a working
\* connection and some file's open or read failed, every other file was
\* sent completely, the queue is empty and the wire ends with the
\* Close/ConnectionClose pair.
C10_FailureIsolation ==
    (mpc = "done" /\ connOpen /\ \E f \in Files : failed[f] # "none") =>
       /\ \A g \in 1 .. Len(disk) : failed[g] = "none" => SentCompletely(g)
       /\ queue = << >>
       /\ ClosePair

\* ------------------------------------------------------------------- C11

\* What a read error of an open file leaves behind, without the claim's
\* last clause: sendFile is past its loop, the wire holds no chunk beyond
\* the bytes read before the error (over a working connection: exactly
\* those), and no more chunks than sendFile had built.
ReadErrorStops(f) ==
    /\ wpc[f] \in {"finish", "done"}
    /\ Cardinality(ChunksOf(f)) <= sentChunks[f]
    /\ SumLen(ChunksOf(f)) <= pos[f]
    /\ connOpen => SumLen(ChunksOf(f)) = pos[f]

\* C11 as claimed.  Read error stops the file: after a read error of an
\* open file no further chunk of it is emitted, and the file is incomplete
\* on the wire: its chunk payloads add up to less than its declared size.
C11_ReadErrorStopsIncomplete ==
    \A f \in Files :
        (failed[f] = "read" /\ fp[f] = "open") =>
            /\ ReadErrorStops(f)
            /\ SumLen(ChunksOf(f)) < disk[f]

\* C11 as amended.  After a read error of an open file no further chunk of
\* it is emitted (the failing read sends nothing); its chunk payloads add up
\* to at most its declared size, and to less whenever the failing read was
\* not the one at the end of the file.
C11_ReadErrorStops ==
    \A f \in Files :
        (failed[f] = "read" /\ fp[f] = "open") =>
            /\ ReadErrorStops(f)
            /\ SumLen(ChunksOf(f)) <= disk[f]
            /\ pos[f] < disk[f] => SumLen(ChunksOf(f)) < disk[f]

\* The second read of a file failed: its first chunk is on the wire, the
\* rest is missing, and RunE has returned.
C11_Witness ==
    \E f \in Files :
        /\ failed[f] = "read"
        /\ fp[f] = "open"
        /\ Cardinality(ChunksOf(f)) = 1
        /\ pos[f] < disk[f]
        /\ wpc[f] = "done"
        /\ mpc = "done"
        /\ connOpen

\* ------------------------------------------------------------------- C12

\* C12.  Send failure aborts the in-flight file: a sendFile goroutine that
\* is sending a chunk has had every earlier SendMessage of its file succeed
\* (its File frame and all the chunks it built before are on the wire); once
\* a send of the file has failed it attempts no further chunk send.
C12_SendFailureAborts ==
    \A f \in Files :
        wpc[f] \in {"sendChunk", "sendChunkW"} =>
            /\ FileFramesOf(f) # {}
            /\ Cardinality(ChunksOf(f)) = sentChunks[f] - 1

\* ------------------------------------------------------------------- C13

\* The frames of one file sent alone and without error: its File frame,
\* then its bytes cut into buffers, Seq counting from 0.
FramesOfFile(f) ==
    << FileMessage(Descriptor(f)) >> \o
    [k \in 1 .. ((disk[f] + ReadBufferSize - 1) \div ReadBufferSize) |->
        Frame("FileChunk", f, k - 1,
              Min(ReadBufferSize, disk[f] - (k - 1) * ReadBufferSize))]

RECURSIVE FramesOfFiles(_)
\* The frames of the first n enumerated files, one file after the other.
FramesOfFiles(n) ==
    IF n = 0 THEN << >> ELSE FramesOfFiles(n - 1) \o FramesOfFile(n)

\* C13.  Sequential end-to-end frame sequence: with conf.Threads = 1, no
\* error and a working connection, the wire after RunE has returned is
\* Config, then file by file in queue order the File frame directly followed
\* by its chunks, then Close, then ConnectionClose.
C13_SequentialFrames ==
    (/\ mpc = "done"
     /\ connOpen
     /\ threads = 1
     /\ \A f \in Files : failed[f] = "none") =>
        Frames = << ConfigMessage >> \o FramesOfFiles(Len(disk))
                    \o << Frame("Close", 0, 0, 0), ConnectionCloseMessage >>

\* ------------------------------------------------------------------- C14

\* Whether every directory above the entry p, the working directory
\* included, can be listed.
Reachable(p) == \A d \in 0 .. Len(p) - 1 : tree[SubSeq(p, 1, d)] = "dir"

\* The files collectFiles has to find, as descriptors.
FilesToFind ==
    { NewFile(p[Len(p)], Parent(p)) :
        p \in { q \in DOMAIN tree : q # << >> /\ tree[q] = "file" /\ Reachable(q) } }

\* The directories whose listing fails when collectFiles gets to them.
FailedListings ==
    { WorkingDirectory \o p :
        p \in { q \in DOMAIN tree : tree[q] = "baddir" /\ Reachable(q) } }

\* C14.  Enumeration completeness: collectFiles appends one descriptor, and
\* only one, for each file below the working directory in a directory that
\* can be listed, with Name its base name and RelativePath its directory
\* relative to the working directory; it appends nothing else (nothing for a
\* directory, nothing for a file below a failed listing); every failed
\* listing is reported, once, and the directories after it are still
\* enumerated.
C14_EnumerationComplete ==
    epc = "done" =>
        /\ { found.files[k] : k \in DOMAIN found.files } = FilesToFind
        /\ Len(found.files) = Cardinality(FilesToFind)
        /\ { found.errors[k] : k \in DOMAIN found.errors } = FailedListings
        /\ Len(found.errors) = Cardinality(FailedListings)

\* a/ cannot be listed and holds a file; its sibling b/ holds a file too:
\* a is reported, b's file is found, a's file is not.
C14_Witness ==
    /\ epc = "done"
    /\ << "a" >> \in DOMAIN tree /\ tree[<< "a" >>] = "baddir"
    /\ << "a", "a" >> \in DOMAIN tree /\ tree[<< "a", "a" >>] = "file"
    /\ << "b" >> \in DOMAIN tree /\ tree[<< "b" >>] = "file"
    /\ found.files = << NewFile("b", << >>) >>
    /\ found.errors = << WorkingDirectory \o << "a" >> >>

\* ------------------------------------------------------------------- C15

\* C15.  Per-file wire ordering: every FileChunk frame on the wire follows a
\* File frame with its id, carries the connection id of the session, and has
\* a Seq greater than that of every earlier chunk of the same file.
C15_PerFileOrdering ==
    \A k \in DOMAIN Frames :
        Frames[k].type = "FileChunk" =>
            /\ \E j \in FileFramesOf(Frames[k].ID) : j < k
            /\ Frames[k].ConnectionID = ConfigMessage.ConnectionID
            /\ \A j \in ChunksOf(Frames[k].ID) :
                  j < k => Frames[j].Seq < Frames[k].Seq

\* Two files in flight: both File frames, then chunks of the two files
\* alternating, the second file's chunk first.
C15_Witness ==
    \E f, g \in Files : \E a, b \in ChunksOf(f) : \E c \in ChunksOf(g) :
        /\ f < g
        /\ c < a /\ a < b
        /\ \A j \in FileFramesOf(f) \cup FileFramesOf(g) : j < c

\* ------------------------------------------------------------------- C16

\* The queue and the goroutines agree: before collectFiles has run the queue
\* is empty and no goroutine exists; afterwards the queue holds the last
\* descriptors of the enumeration, in order, and exactly the files before
\* them have been handed to a goroutine; when RunE is past its loop the
\* queue is empty.
QueueDrainedInOrder ==
    LET n == Len(disk)
        q == Len(queue)
    IN  IF mpc \in {"connect", "config", "configW", "collect", "exit"}
        THEN queue = << >> /\ \A f \in Files : wpc[f] = "idle"
        ELSE /\ q <= n
             /\ queue = [k \in 1 .. q |-> Descriptor(n - q + k)]
             /\ \A f \in Files : wpc[f] # "idle" <=> f <= n - q
             /\ \A f \in Files : roundOf[f] > 0 <=> f <= n - q
             /\ mpc \in {"close", "closeW", "done"} =>
                   q = 0 /\ \A f \in 1 .. n : wpc[f] = "done"

\* C16.  Queue draining: the queue is filled once, by collectFiles, before
\* any goroutine starts; after that only RunE's for loop changes it, by
\* removing the front descriptor and handing it to a new goroutine; no
\* descriptor is skipped or handed out twice, and a run that ends has handed
\* out every one.
C16_QueueDraining ==
    /\ [] QueueDrainedInOrder
    /\ [][ queue' # queue =>
              \/ mpc = "collect" /\ queue = << >> /\ \A f \in Files : wpc[f] = "idle"
              \/ /\ mpc = "for" /\ queue # << >> /\ queue' = Tail(queue)
                 /\ wpc[Head(queue).ID] = "idle"
                 /\ wpc'[Head(queue).ID] = "open" ]_vars

\* Three files sent in two rounds of T = 2: the queue is empty, every
\* goroutine has finished and RunE has returned.
C16_Witness ==
    /\ threads = 2
    /\ Len(disk) = 3
    /\ mpc = "done"
    /\ queue = << >>
    /\ roundOf = << 1, 1, 2 >>
    /\ \A f \in Files : wpc[f] = "done"

\* ------------------------------------------------------------------- C17

\* Where a receiver that appends the chunks of a file in the order of their
\* arrival puts the chunk at position k of the wire.
AppendOffset(k) ==
    SumLen({ j \in ChunksOf(Frames[k].ID) : j < k })

\* Where a receiver that places every chunk by its sequence number puts it.
SeqOffset(k) == Frames[k].Seq * ReadBufferSize

\* C17.  Offset reassembly agrees with append reassembly: every chunk on the
\* wire lands at the same offset under both, Seq x ReadBufferSize, and lies
\* within the file; so every chunk that another follows carries exactly
\* ReadBufferSize bytes.
C17_OffsetsAgree ==
    \A k \in DOMAIN Frames :
        Frames[k].type = "FileChunk" =>
            /\ SeqOffset(k) = AppendOffset(k)
            /\ SeqOffset(k) + Frames[k].Len <= disk[Frames[k].ID]
            /\ (\E j \in ChunksOf(Frames[k].ID) : j > k) =>
                  Frames[k].Len = ReadBufferSize

\* A file sent whole in MaxChunks chunks, the last one short and placed
\* behind full buffers, while frames of another file came between.
C17_Witness ==
    \E f, g \in Files : \E k \in ChunksOf(f) :
        /\ f # g
        /\ wpc[f] = "done" /\ failed[f] = "none" /\ connOpen
        /\ Frames[k].Seq = MaxChunks - 1
        /\ Frames[k].Len < ReadBufferSize
        /\ SeqOffset(k) + Frames[k].Len = disk[f]
        /\ \E c \in FramesOf(g) : \E a \in ChunksOf(f) : a < c /\ c < k

\* ------------------------------------------------------------------- C18

\* The bars sendFile wrote from inside its read loop: all of rendered, less
\* the full bar it writes on its way out.
LoopRendered(f) ==
    IF wpc[f] = "done" THEN SubSeq(rendered[f], 1, Len(rendered[f]) - 1)
    ELSE rendered[f]

\* C18.  Progress redraw gating: the buckets a sendFile has written to the
\* console are strictly increasing, starting above 0, the full bar at its
\* end included; inside the loop at most one bar is written per chunk, each
\* the bucket GetProgress returned for one of the chunks, lastPercentage is
\* the last of them, and no chunk's bucket exceeds it (a chunk whose bucket
\* does not exceed the last one written draws nothing).
C18_RedrawGating ==
    \A f \in Files :
        LET r == rendered[f]
            l == LoopRendered(f)
        IN  /\ \A k \in DOMAIN r : r[k] > (IF k = 1 THEN 0 ELSE r[k - 1])
            /\ Len(l) <= sentChunks[f]
            /\ lastPercentage[f] = (IF l = << >> THEN 0 ELSE l[Len(l)])
            /\ \A k \in DOMAIN l :
                  \E n \in 0 .. sentChunks[f] - 1 :
                      l[k] = GetProgress(n, BarWidth, Descriptor(f))
            /\ \A n \in 0 .. sentChunks[f] - 1 :
                  GetProgress(n, BarWidth, Descriptor(f)) <= lastPercentage[f]

\* A file sent in MaxChunks chunks: its first chunk, at bucket 0, drew
\* nothing, a later one did, and the full bar ended the line.
C18_Witness ==
    \E f \in Files :
        /\ wpc[f] = "done"
        /\ sentChunks[f] = MaxChunks
        /\ Len(LoopRendered(f)) = MaxChunks - 1
        /\ lastPercentage[f] > 0
        /\ rendered[f][Len(rendered[f])] = BarWidth

\* ------------------------------------------------------------------- C19

\* The source files the sender holds open.
OpenFiles == {f \in Files : fp[f] = "open"}

\* C19.  Open file handles are bounded: a sendFile that has returned holds
\* its source file open no longer, and at no time are more than
\* conf.Threads source files open, however many files were queued.
C19_OpenHandlesBounded ==
    /\ \A f \in Files : wpc[f] = "done" => f \notin OpenFiles
    /\ Cardinality(OpenFiles) <= threads

====
